---- MODULE Spec2Model ----
(***************************************************************************)
(* A model of assignment1/producer_consumer.py: the BoundedBuffer (a deque *)
(* guarded by one lock with two condition variables), the SourceContainer, *)
(* the DestinationContainer and the Producer / Consumer threads, together  *)
(* with the thread harnesses of test_producer_consumer.py.                 *)
(*                                                                         *)
(* A thread inside put/take is at one of four places: "acquire" (blocked   *)
(* on `with self._not_full:` / `with self._not_empty:`), "locked" (holds   *)
(* the lock, at the test of the while loop), "waiting" (parked inside      *)
(* Condition.wait, the lock released) and "reacquire" (woken, taking the   *)
(* lock again at the end of Condition.wait).                               *)
(***************************************************************************)
EXTENDS Integers, Sequences, FiniteSets, TLC

\* ------------------------------------------------------------- bounds
MaxThreads == 2     \* generic caller threads of the buffer harness
MaxCap == 2         \* capacities 1..MaxCap are explored
MaxPuts == 2        \* put calls made by the generic callers in one run
MaxItems == 2       \* length of the source list / of the tests' all_items
PipeItems == 1      \* length of the source list of the many-worker pipelines
MaxWorkers == 4     \* producer plus consumer threads of a pipeline
MaxSource == 3      \* length of the list of a SourceContainer used alone
MaxGets == 5        \* get_next calls made by the threads that keep calling

\* ------------------------------------------------------------- values
None == 0           \* Python's None
POISON_PILL == -1   \* POISON_PILL = object(): equal to no payload
NoThread == 0       \* the lock is free
NoLock == -2        \* before __init__ has created the lock
NWorkers == 3       \* range(3): producers and consumers of the concurrent run

Max(a, b) == IF a >= b THEN a ELSE b
NumThreads == Max(MaxThreads, Max(MaxWorkers + 1, 2 * NWorkers))
Threads == 1..NumThreads

VARIABLES
    capacity,       \* BoundedBuffer._capacity
    queue,          \* BoundedBuffer._queue
    lock,           \* holder of BoundedBuffer._lock, or NoThread
    not_empty,      \* waiters of BoundedBuffer._not_empty, oldest first
    not_full,       \* waiters of BoundedBuffer._not_full, oldest first
    source_items,   \* SourceContainer._items
    source_index,   \* SourceContainer._index (0-based: elements handed out)
    source_lock,    \* holder of SourceContainer._lock, or NoThread
    dest_items,     \* DestinationContainer._items / the tests' consumed list
    dest_lock,      \* holder of DestinationContainer._lock, or NoThread
    snapshot,       \* the list each thread's last get_items() returned
    poison_pill,    \* the poison value the threads were given
    role,           \* what each thread runs: "caller", "producer", "consumer",
                    \* "producer_fn", "main", "off"
    pc,             \* each thread's position
    op,             \* the buffer operation a thread is inside: "put", "take", "none"
    arg,            \* the item a thread is putting / the item its take returned
    cont,           \* where the thread continues when its put returns
    deadline,       \* "none": no timeout; "pending": end_time in the future; "passed"
    raised,         \* the thread's last put/take ended with BufferTimeoutError
    todo,           \* producer_fn: the items still to put; main: pills still to put
    calls,          \* number of put calls the generic callers have made
    putLog,         \* history: the items appended, in order of the appends
    takeLog         \* history: the items popped, in order of the pops

bufVars == <<capacity, queue, lock, not_empty, not_full>>
destVars == <<dest_lock, snapshot>>
contVars == <<source_items, source_index, source_lock, dest_items, dest_lock,
              snapshot>>
logVars == <<putLog, takeLog>>
vars == <<capacity, queue, lock, not_empty, not_full, source_items,
          source_index, source_lock, dest_items, dest_lock, snapshot,
          poison_pill, role, pc, op, arg, cont, deadline, raised, todo, calls,
          putLog, takeLog>>

\* ------------------------------------------------------------- helpers
Remove(s, t) == SelectSeq(s, LAMBDA u : u # t)

Producers == {t \in Threads : role[t] \in {"producer", "producer_fn"}}
Consumers == {t \in Threads : role[t] = "consumer"}

\* faulty variant: notify_all(), every waiter is woken
NotifyAllPc(cond, f) ==
    [u \in DOMAIN f |-> IF \E i \in DOMAIN cond : cond[i] = u THEN "reacquire"
                                                              ELSE f[u]]

\* faulty variant: the notify is missing
NotifyNobody(cond, f) == f

\* Condition.notify(): wakes the oldest waiter, which then has to re-acquire
\* the lock; no waiter, no effect.
NotifyPc(cond, f) ==
    IF cond = <<>> THEN f ELSE [f EXCEPT ![Head(cond)] = "reacquire"]

NotifyWaiters(cond) == IF cond = <<>> THEN cond ELSE Tail(cond)

\* faulty variant: the test lets one item too many in
IsFullLate(q) == Len(q) = capacity + 1

\* `len(self._queue) == self._capacity`, the test of put's while loop
IsFull(q) == Len(q) = capacity

\* `not self._queue`, the test of take's while loop
IsEmpty(q) == q = <<>>

\* faulty variant: the oldest item is read and left in the deque
PeekLeft(q) == <<Head(q), q>>

\* faulty variant: deque.pop(), the newest item instead of the oldest
PopRight(q) == <<q[Len(q)], SubSeq(q, 1, Len(q) - 1)>>

\* deque.popleft(): the item removed and the deque left
Popleft(q) == <<Head(q), Tail(q)>>

\* faulty variant: the Producer's loop goes on after the pill
AfterPutLoop(t) == IF cont[t] = "done" THEN "get_next" ELSE cont[t]

\* where a thread continues after put returned
AfterPut(t) == cont[t]

\* faulty variant: the Consumer breaks out of its loop on any item
AfterTakeAnyStops(t, item) == IF role[t] = "consumer" THEN "done" ELSE "idle"

\* faulty variant: the Consumer never breaks out of its loop
AfterTakeNoBreak(t, item) == IF role[t] = "consumer" THEN "add" ELSE "idle"

\* where a thread continues after take returned item: the Consumer's
\* `if item == self._poison_pill: break`, else destination.add(item)
AfterTake(t, item) ==
    IF role[t] = "consumer"
    THEN IF item = poison_pill THEN "done" ELSE "add"
    ELSE "idle"

\* where a thread continues after BufferTimeoutError
AfterRaise(t) == "idle"

\* ------------------------------------------------------------- BoundedBuffer
\* faulty variant: `if` instead of `while`, a woken put appends without
\* testing the queue again
AcquireNoRecheck(t) ==
    /\ pc[t] \in {"acquire", "reacquire"}
    /\ lock = NoThread
    /\ IF pc[t] = "reacquire" /\ op[t] = "put"
       THEN /\ queue' = Append(queue, arg[t])
            /\ putLog' = Append(putLog, arg[t])
            /\ pc' = [pc EXCEPT ![t] = cont[t]]
            /\ op' = [op EXCEPT ![t] = "none"]
            /\ UNCHANGED lock
       ELSE /\ lock' = t
            /\ pc' = [pc EXCEPT ![t] = "locked"]
            /\ UNCHANGED <<queue, putLog, op>>
    /\ UNCHANGED <<capacity, not_empty, not_full, contVars, poison_pill,
                   role, arg, cont, deadline, raised, todo, calls, takeLog>>

\* faulty variant: the locked region is entered whether the lock is free or not
AcquireHeldLock(t) ==
    /\ pc[t] \in {"acquire", "reacquire"}
    /\ lock' = t
    /\ pc' = [pc EXCEPT ![t] = "locked"]
    /\ UNCHANGED <<capacity, queue, not_empty, not_full, contVars, poison_pill,
                   role, op, arg, cont, deadline, raised, todo, calls, logVars>>

\* `with self._not_full:` / `with self._not_empty:` / the re-acquire of wait()
Acquire(t) ==
    /\ pc[t] \in {"acquire", "reacquire"}
    /\ lock = NoThread
    /\ lock' = t
    /\ pc' = [pc EXCEPT ![t] = "locked"]
    /\ UNCHANGED <<capacity, queue, not_empty, not_full, contVars, poison_pill,
                   role, op, arg, cont, deadline, raised, todo, calls, logVars>>

\* put: the queue is full and the deadline (if any) has not passed: wait
PutWaitBody(t) ==
    /\ op[t] = "put"
    /\ IsFull(queue)
    /\ deadline[t] # "passed"
    /\ not_full' = Append(not_full, t)
    /\ lock' = NoThread
    /\ pc' = [pc EXCEPT ![t] = "waiting"]
    /\ UNCHANGED <<capacity, queue, not_empty, contVars, poison_pill, role, op,
                   arg, cont, deadline, raised, todo, calls, logVars>>

\* faulty variant: the put that times out has appended its item first
PutTimeoutAppends(t) ==
    /\ op[t] = "put"
    /\ IsFull(queue)
    /\ deadline[t] = "passed"
    /\ queue' = Append(queue, arg[t])
    /\ lock' = NoThread
    /\ pc' = [pc EXCEPT ![t] = AfterRaise(t)]
    /\ op' = [op EXCEPT ![t] = "none"]
    /\ deadline' = [deadline EXCEPT ![t] = "none"]
    /\ raised' = [raised EXCEPT ![t] = TRUE]
    /\ UNCHANGED <<capacity, not_empty, not_full, contVars, poison_pill,
                   role, arg, cont, todo, calls, logVars>>

\* faulty variant: a timed put on a full queue raises without looking at the clock
PutTimeoutEarly(t) ==
    /\ op[t] = "put"
    /\ IsFull(queue)
    /\ deadline[t] # "none"
    /\ lock' = NoThread
    /\ pc' = [pc EXCEPT ![t] = AfterRaise(t)]
    /\ op' = [op EXCEPT ![t] = "none"]
    /\ deadline' = [deadline EXCEPT ![t] = "none"]
    /\ raised' = [raised EXCEPT ![t] = TRUE]
    /\ UNCHANGED <<capacity, queue, not_empty, not_full, contVars, poison_pill,
                   role, arg, cont, todo, calls, logVars>>

\* put: the queue is full and remaining <= 0: raise BufferTimeoutError
PutTimeoutBody(t) ==
    /\ op[t] = "put"
    /\ IsFull(queue)
    /\ deadline[t] = "passed"
    /\ lock' = NoThread
    /\ pc' = [pc EXCEPT ![t] = AfterRaise(t)]
    /\ op' = [op EXCEPT ![t] = "none"]
    /\ deadline' = [deadline EXCEPT ![t] = "none"]
    /\ raised' = [raised EXCEPT ![t] = TRUE]
    /\ UNCHANGED <<capacity, queue, not_empty, not_full, contVars, poison_pill,
                   role, arg, cont, todo, calls, logVars>>

\* faulty variant: the clock is looked at before the queue, a put whose
\* deadline has passed does not append even when there is room
PutDoneInTime(t) ==
    /\ op[t] = "put"
    /\ ~IsFull(queue)
    /\ deadline[t] # "passed"
    /\ queue' = Append(queue, arg[t])
    /\ putLog' = Append(putLog, arg[t])
    /\ not_empty' = NotifyWaiters(not_empty)
    /\ lock' = NoThread
    /\ pc' = NotifyPc(not_empty, [pc EXCEPT ![t] = AfterPut(t)])
    /\ op' = [op EXCEPT ![t] = "none"]
    /\ arg' = [arg EXCEPT ![t] = None]
    /\ deadline' = [deadline EXCEPT ![t] = "none"]
    /\ UNCHANGED <<capacity, not_full, contVars, poison_pill, role, cont,
                   raised, todo, calls, takeLog>>

\* put: there is room: append, notify not_empty, release
PutDoneBody(t) ==
    /\ op[t] = "put"
    /\ ~IsFull(queue)
    /\ queue' = Append(queue, arg[t])
    /\ putLog' = Append(putLog, arg[t])
    /\ not_empty' = NotifyWaiters(not_empty)
    /\ lock' = NoThread
    /\ pc' = NotifyPc(not_empty, [pc EXCEPT ![t] = AfterPut(t)])
    /\ op' = [op EXCEPT ![t] = "none"]
    /\ arg' = [arg EXCEPT ![t] = None]
    /\ deadline' = [deadline EXCEPT ![t] = "none"]
    /\ UNCHANGED <<capacity, not_full, contVars, poison_pill, role, cont,
                   raised, todo, calls, takeLog>>

\* faulty variant: the taker parks itself without releasing the lock
TakeWaitKeepsLock(t) ==
    /\ op[t] = "take"
    /\ IsEmpty(queue)
    /\ deadline[t] # "passed"
    /\ not_empty' = Append(not_empty, t)
    /\ lock' = t
    /\ pc' = [pc EXCEPT ![t] = "waiting"]
    /\ UNCHANGED <<capacity, queue, not_full, contVars, poison_pill, role, op,
                   arg, cont, deadline, raised, todo, calls, logVars>>

\* faulty variant: every wait of a timed take starts the timeout afresh
TakeWaitRestarts(t) ==
    /\ op[t] = "take"
    /\ IsEmpty(queue)
    /\ deadline[t] # "passed"
    /\ deadline' = [deadline EXCEPT ![t] = IF deadline[t] = "none" THEN "none"
                                           ELSE "pending2"]
    /\ not_empty' = Append(not_empty, t)
    /\ lock' = NoThread
    /\ pc' = [pc EXCEPT ![t] = "waiting"]
    /\ UNCHANGED <<capacity, queue, not_full, contVars, poison_pill, role, op,
                   arg, cont, raised, todo, calls, logVars>>

\* take: the queue is empty and the deadline (if any) has not passed: wait
TakeWaitBody(t) ==
    /\ op[t] = "take"
    /\ IsEmpty(queue)
    /\ deadline[t] # "passed"
    /\ not_empty' = Append(not_empty, t)
    /\ lock' = NoThread
    /\ pc' = [pc EXCEPT ![t] = "waiting"]
    /\ UNCHANGED <<capacity, queue, not_full, contVars, poison_pill, role, op,
                   arg, cont, deadline, raised, todo, calls, logVars>>

\* take: the queue is empty and remaining <= 0: raise BufferTimeoutError
TakeTimeoutBody(t) ==
    /\ op[t] = "take"
    /\ IsEmpty(queue)
    /\ deadline[t] = "passed"
    /\ lock' = NoThread
    /\ pc' = [pc EXCEPT ![t] = AfterRaise(t)]
    /\ op' = [op EXCEPT ![t] = "none"]
    /\ deadline' = [deadline EXCEPT ![t] = "none"]
    /\ raised' = [raised EXCEPT ![t] = TRUE]
    /\ UNCHANGED <<capacity, queue, not_empty, not_full, contVars, poison_pill,
                   role, arg, cont, todo, calls, logVars>>

\* take: there is an item: popleft, notify not_full, release, return the item
TakeDoneBody(t) ==
    /\ op[t] = "take"
    /\ ~IsEmpty(queue)
    /\ queue' = Popleft(queue)[2]
    /\ takeLog' = Append(takeLog, Popleft(queue)[1])
    /\ arg' = [arg EXCEPT ![t] = Popleft(queue)[1]]
    /\ not_full' = NotifyWaiters(not_full)
    /\ lock' = NoThread
    /\ pc' = NotifyPc(not_full, [pc EXCEPT ![t] = AfterTake(t, Popleft(queue)[1])])
    /\ op' = [op EXCEPT ![t] = "none"]
    /\ deadline' = [deadline EXCEPT ![t] = "none"]
    /\ UNCHANGED <<capacity, not_empty, contVars, poison_pill, role, cont,
                   raised, todo, calls, putLog>>

\* the locked region entered by a thread that holds the lock
Holds(t) == pc[t] = "locked" /\ lock = t

\* the lock taken and the locked region run in one step: between the two only
\* threads outside the buffer can move, and they touch nothing the region reads
Enters(t) == pc[t] \in {"acquire", "reacquire"} /\ lock = NoThread

PutWait(t) == Holds(t) /\ PutWaitBody(t)
PutTimeout(t) == Holds(t) /\ PutTimeoutBody(t)
PutDone(t) == Holds(t) /\ PutDoneBody(t)
TakeWait(t) == Holds(t) /\ TakeWaitBody(t)
TakeTimeout(t) == Holds(t) /\ TakeTimeoutBody(t)
TakeDone(t) == Holds(t) /\ TakeDoneBody(t)

PutWaitNow(t) == Enters(t) /\ PutWaitBody(t)
PutDoneNow(t) == Enters(t) /\ PutDoneBody(t)
TakeWaitNow(t) == Enters(t) /\ TakeWaitBody(t)
TakeDoneNow(t) == Enters(t) /\ TakeDoneBody(t)

\* Condition.wait(remaining) returns because the time is up: the waiter takes
\* itself off the condition's list and goes on to re-acquire the lock
WaitTimeout(t) ==
    /\ pc[t] = "waiting"
    /\ deadline[t] = "passed"
    /\ not_full' = Remove(not_full, t)
    /\ not_empty' = Remove(not_empty, t)
    /\ pc' = [pc EXCEPT ![t] = "reacquire"]
    /\ UNCHANGED <<capacity, queue, lock, contVars, poison_pill, role, op, arg,
                   cont, deadline, raised, todo, calls, logVars>>

\* time.monotonic() reaches the end_time of a timed call in progress
DeadlinePass(t) ==
    /\ deadline[t] = "pending"
    /\ deadline' = [deadline EXCEPT ![t] = "passed"]
    /\ UNCHANGED <<bufVars, contVars, poison_pill, role, pc, op, arg, cont,
                   raised, todo, calls, logVars>>

\* ------------------------------------------------------------- generic callers
\* timeout is None ("none"), positive ("pending") or <= 0 ("passed")
Timeouts == {"none", "pending", "passed"}

\* a thread calls put(x, timeout): the callers put the fresh items 1, 2, ...
\* and, as the last put of the run, the poison value
CallPut(t, D) ==
    /\ role[t] \in {"caller", "putter"} /\ pc[t] = "idle"
    /\ calls < MaxPuts
    /\ \E d \in D : deadline' = [deadline EXCEPT ![t] = d]
    /\ arg' = [arg EXCEPT ![t] = IF calls + 1 = MaxPuts THEN poison_pill
                                 ELSE calls + 1]
    /\ calls' = calls + 1
    /\ op' = [op EXCEPT ![t] = "put"]
    /\ pc' = [pc EXCEPT ![t] = "acquire"]
    /\ raised' = [raised EXCEPT ![t] = FALSE]
    /\ UNCHANGED <<bufVars, contVars, poison_pill, role, cont, todo, logVars>>

\* a thread calls take(timeout)
CallTake(t, D) ==
    /\ role[t] \in {"caller", "taker"} /\ pc[t] = "idle"
    /\ \E d \in D : deadline' = [deadline EXCEPT ![t] = d]
    /\ arg' = [arg EXCEPT ![t] = None]
    /\ op' = [op EXCEPT ![t] = "take"]
    /\ pc' = [pc EXCEPT ![t] = "acquire"]
    /\ raised' = [raised EXCEPT ![t] = FALSE]
    /\ UNCHANGED <<bufVars, contVars, poison_pill, role, cont, todo, calls,
                   logVars>>

\* ------------------------------------------------------------- Producer / Consumer
\* faulty variant: the test of get_next is off by one
SourceExhaustedEarly == source_index + 1 >= Len(source_items)

\* SourceContainer.get_next(), under the source's lock:
\* `if self._index >= len(self._items): return None`
SourceExhausted == source_index >= Len(source_items)
GetNext == IF SourceExhausted THEN None ELSE source_items[source_index + 1]

\* Producer.run: item = get_next(); `if item is None: break` and put the pill,
\* else put(item)
ProducerFetch(t) ==
    /\ role[t] = "producer" /\ pc[t] = "get_next"
    /\ source_index' = IF SourceExhausted THEN source_index ELSE source_index + 1
    /\ IF GetNext = None
       THEN /\ arg' = [arg EXCEPT ![t] = poison_pill]
            /\ cont' = [cont EXCEPT ![t] = "done"]
       ELSE /\ arg' = [arg EXCEPT ![t] = GetNext]
            /\ cont' = [cont EXCEPT ![t] = "get_next"]
    /\ op' = [op EXCEPT ![t] = "put"]
    /\ pc' = [pc EXCEPT ![t] = "acquire"]
    /\ UNCHANGED <<bufVars, destVars, source_items, source_lock, dest_items,
                   poison_pill, role, deadline, raised, todo, calls, logVars>>

\* Consumer.run: destination.add(item) under the destination's lock, then the
\* next take()
ConsumerAdd(t) ==
    /\ role[t] = "consumer" /\ pc[t] = "add"
    /\ dest_items' = Append(dest_items, arg[t])
    /\ arg' = [arg EXCEPT ![t] = None]
    /\ op' = [op EXCEPT ![t] = "take"]
    /\ pc' = [pc EXCEPT ![t] = "acquire"]
    /\ UNCHANGED <<bufVars, destVars, source_items, source_index, source_lock,
                   poison_pill, role, cont, deadline, raised, todo, calls,
                   logVars>>

\* ------------------------------------------------------------- test harness
\* producer_fn: `for x in items: buffer.put(x)`
ProducerFnNext(t) ==
    /\ role[t] = "producer_fn" /\ pc[t] = "for"
    /\ IF todo[t] = <<>>
       THEN /\ pc' = [pc EXCEPT ![t] = "done"]
            /\ UNCHANGED <<arg, op, todo>>
       ELSE /\ arg' = [arg EXCEPT ![t] = Head(todo[t])]
            /\ todo' = [todo EXCEPT ![t] = Tail(todo[t])]
            /\ op' = [op EXCEPT ![t] = "put"]
            /\ pc' = [pc EXCEPT ![t] = "acquire"]
    /\ UNCHANGED <<bufVars, contVars, poison_pill, role, cont, deadline,
                   raised, calls, logVars>>

\* the test's main thread: after joining the producers,
\* `for _ in range(2): buffer.put(poison)`, then it joins the consumers
MainPutPill(t) ==
    /\ role[t] = "main" /\ pc[t] = "join"
    /\ \A p \in Producers : pc[p] = "done"
    /\ IF todo[t] = <<>>
       THEN /\ \A c \in Consumers : pc[c] = "done"
            /\ pc' = [pc EXCEPT ![t] = "done"]
            /\ UNCHANGED <<arg, op, todo>>
       ELSE /\ arg' = [arg EXCEPT ![t] = Head(todo[t])]
            /\ todo' = [todo EXCEPT ![t] = Tail(todo[t])]
            /\ op' = [op EXCEPT ![t] = "put"]
            /\ pc' = [pc EXCEPT ![t] = "acquire"]
    /\ UNCHANGED <<bufVars, contVars, poison_pill, role, cont, deadline,
                   raised, calls, logVars>>

\* ------------------------------------------------------------- initial states
\* BoundedBuffer.__init__ with a capacity >= 1
InitBuffer ==
    /\ capacity \in 1..MaxCap
    /\ queue = <<>>
    /\ lock = NoThread
    /\ not_empty = <<>>
    /\ not_full = <<>>
    /\ putLog = <<>>
    /\ takeLog = <<>>

\* a thread that has called get_items() holds a list object: ref tells
\* whether it is a list of its own ("copy") or the container's list itself
\* ("same"); items is the content a list of its own has
NoSnapshot == [ref |-> "none", items |-> <<>>]

\* SourceContainer(items), DestinationContainer()
InitContainers(items) ==
    /\ source_items = items
    /\ source_index = 0
    /\ source_lock = NoThread
    /\ dest_items = <<>>
    /\ dest_lock = NoThread
    /\ snapshot = [t \in Threads |-> NoSnapshot]

\* the threads before start(): a Consumer's first statement is take()
InitThreads(r) ==
    /\ role = r
    /\ pc = [t \in Threads |->
               CASE r[t] \in {"caller", "putter", "taker", "snapper", "user"}
                        -> "idle"
                 [] r[t] \in {"producer", "reader", "getter"} -> "get_next"
                 [] r[t] = "consumer" -> "acquire"
                 [] r[t] \in {"producer_fn", "adder"} -> "for"
                 [] r[t] = "main" -> "join"
                 [] OTHER -> "off"]
    /\ op = [t \in Threads |-> IF r[t] = "consumer" THEN "take" ELSE "none"]
    /\ arg = [t \in Threads |-> None]
    /\ cont = [t \in Threads |->
               CASE r[t] = "producer_fn" -> "for"
                 [] r[t] = "main" -> "join"
                 [] OTHER -> "idle"]
    /\ deadline = [t \in Threads |-> "none"]
    /\ raised = [t \in Threads |-> FALSE]
    /\ calls = 0

\* the list 1..n
Range(n) == [i \in 1..n |-> i]

\* the source lists explored: 1..n, and 1..n with one element replaced by None
SourceLists ==
    UNION {{Range(n)} \cup
           {[i \in 1..n |-> IF i = k THEN None ELSE i] : k \in 1..n} :
           n \in 0..MaxItems}

\* threads 1..np are Producers, the next nc are Consumers
PipelineRoles(np, nc) ==
    [t \in Threads |-> IF t <= np THEN "producer"
                       ELSE IF t <= np + nc THEN "consumer" ELSE "off"]

\* threads 1..np run producer_fn, the next nc consumer_fn, the next is main
TestRoles(np, nc) ==
    [t \in Threads |-> IF t <= np THEN "producer_fn"
                       ELSE IF t <= np + nc THEN "consumer"
                       ELSE IF t = np + nc + 1 THEN "main" ELSE "off"]

AllDone == \A t \in Threads : pc[t] \in {"done", "off"}

\* ------------------------------------------------------------- observations
\* number of occurrences of x in the sequence s
Count(x, s) == Cardinality({i \in DOMAIN s : s[i] = x})

PillsPut == Count(poison_pill, putLog)
PillsTaken == Count(poison_pill, takeLog)
nProd == Cardinality({t \in Threads : role[t] = "producer"})
nCons == Cardinality(Consumers)
DoneProducers == {t \in Producers : pc[t] = "done"}
DoneConsumers == {t \in Consumers : pc[t] = "done"}

\* a quantity every step of a pipeline raises.  A thread climbs from 0 (about
\* to call put or take) to 1 (at the lock), 2 (parked) and 3 (terminated);
\* an append or a pop sends its thread back by at most 1 and wakes at most
\* one parked thread, which falls back by 1, and counts for 3.
Progress ==
    3 * (Len(putLog) + Len(takeLog))
    + Cardinality({t \in Threads : pc[t] \in {"acquire", "reacquire"}})
    + 2 * Cardinality({t \in Threads : pc[t] = "waiting"})
    + 3 * Cardinality({t \in Threads : pc[t] = "done"})

\* ------------------------------------------------------------- specifications
\* Spec: threads calling put and take on one buffer, with and without timeouts
Init ==
    /\ InitBuffer
    /\ InitThreads([t \in Threads |-> IF t <= MaxThreads THEN "caller" ELSE "off"])
    /\ InitContainers(<<>>)
    /\ poison_pill = POISON_PILL
    /\ todo = [t \in Threads |-> <<>>]

Next ==
    \E t \in Threads :
        \/ CallPut(t, Timeouts)
        \/ CallTake(t, Timeouts)
        \/ Acquire(t)
        \/ PutWait(t)
        \/ PutTimeout(t)
        \/ PutDone(t)
        \/ TakeWait(t)
        \/ TakeTimeout(t)
        \/ TakeDone(t)
        \/ WaitTimeout(t)
        \/ DeadlinePass(t)

Spec == Init /\ [][Next]_vars

\* SpecUntimed: threads calling put(x) and take() without timeout; a thread
\* only puts or only takes.  A thread inside put/take that can take a step
\* eventually takes it.
InitUntimed ==
    /\ InitBuffer
    /\ \E r \in [1..MaxThreads -> {"putter", "taker"}] :
          InitThreads([t \in Threads |-> IF t <= MaxThreads THEN r[t] ELSE "off"])
    /\ InitContainers(<<>>)
    /\ poison_pill = POISON_PILL
    /\ todo = [t \in Threads |-> <<>>]

InsideStep(t) ==
    \/ Acquire(t)
    \/ PutWait(t)
    \/ PutDone(t)
    \/ TakeWait(t)
    \/ TakeDone(t)

NextUntimed ==
    \E t \in Threads :
        \/ CallPut(t, {"none"})
        \/ CallTake(t, {"none"})
        \/ InsideStep(t)

SpecUntimed ==
    /\ InitUntimed
    /\ [][NextUntimed]_vars
    /\ \A t \in Threads : WF_vars(InsideStep(t))

\* the steps of the pipelines: the lock is taken and the locked region run in
\* one step
PipeStep(t) ==
    \/ PutWaitNow(t)
    \/ PutDoneNow(t)
    \/ TakeWaitNow(t)
    \/ TakeDoneNow(t)

\* SpecOne: one Producer and one Consumer, any source list
InitOne ==
    /\ InitBuffer
    /\ InitThreads(PipelineRoles(1, 1))
    /\ \E items \in SourceLists : InitContainers(items)
    /\ poison_pill = POISON_PILL
    /\ todo = [t \in Threads |-> <<>>]

NextPipe ==
    \E t \in Threads :
        \/ ProducerFetch(t)
        \/ ConsumerAdd(t)
        \/ PipeStep(t)

SpecOne == InitOne /\ [][NextPipe]_vars /\ WF_vars(NextPipe)

\* SpecDemo: NWorkers Producers sharing one source, NWorkers Consumers
InitDemo ==
    /\ InitBuffer
    /\ InitThreads(PipelineRoles(NWorkers, NWorkers))
    /\ \E n \in 0..PipeItems : InitContainers(Range(n))
    /\ poison_pill = POISON_PILL
    /\ todo = [t \in Threads |-> <<>>]

SpecDemo == InitDemo /\ [][NextPipe]_vars /\ WF_vars(NextPipe)

\* SpecPipe: any numbers of Producers and Consumers, MaxWorkers threads at most
InitPipe ==
    /\ InitBuffer
    /\ \E np \in 1..MaxWorkers, nc \in 1..MaxWorkers :
          /\ np + nc <= MaxWorkers
          /\ InitThreads(PipelineRoles(np, nc))
    /\ \E n \in 0..PipeItems : InitContainers(Range(n))
    /\ poison_pill = POISON_PILL
    /\ todo = [t \in Threads |-> <<>>]

SpecPipe == InitPipe /\ [][NextPipe]_vars /\ WF_vars(NextPipe)

\* SpecTest: test_multi_producer_multi_consumer / test_stress_small_buffer:
\* producer_fn threads with disjoint item lists, consumer_fn threads, and the
\* main thread putting one poison value (None) per consumer after the
\* producers have finished; source_items holds the test's all_items, MaxItems
\* items at most
InitTest ==
    /\ InitBuffer
    /\ poison_pill = None
    /\ \E np \in 1..MaxWorkers, nc \in 1..MaxWorkers, k \in 0..MaxItems :
          /\ np + nc <= MaxWorkers
          /\ np * k <= MaxItems
          /\ InitContainers(Range(np * k))
          /\ InitThreads(TestRoles(np, nc))
          /\ todo = [t \in Threads |->
                      IF t <= np THEN [i \in 1..k |-> (t - 1) * k + i]
                      ELSE IF t = np + nc + 1 THEN [i \in 1..nc |-> None]
                      ELSE <<>>]

NextTest ==
    \E t \in Threads :
        \/ ProducerFnNext(t)
        \/ MainPutPill(t)
        \/ ConsumerAdd(t)
        \/ PipeStep(t)

SpecTest == InitTest /\ [][NextTest]_vars /\ WF_vars(NextTest)

\* a thread calls size()
CallSize(t) ==
    /\ role[t] = "caller" /\ pc[t] = "idle"
    /\ op' = [op EXCEPT ![t] = "size"]
    /\ arg' = [arg EXCEPT ![t] = None]
    /\ pc' = [pc EXCEPT ![t] = "acquire"]
    /\ raised' = [raised EXCEPT ![t] = FALSE]
    /\ UNCHANGED <<bufVars, contVars, poison_pill, role, cont, deadline, todo,
                   calls, logVars>>

\* faulty variant: size() returns the capacity
SizeReturnsCapacity(t) ==
    /\ Holds(t)
    /\ op[t] = "size"
    /\ arg' = [arg EXCEPT ![t] = capacity]
    /\ lock' = NoThread
    /\ pc' = [pc EXCEPT ![t] = "idle"]
    /\ op' = [op EXCEPT ![t] = "none"]
    /\ UNCHANGED <<capacity, queue, not_empty, not_full, contVars, poison_pill,
                   role, cont, deadline, raised, todo, calls, logVars>>

\* size(): `with self._lock: return len(self._queue)`
SizeDone(t) ==
    /\ Holds(t)
    /\ op[t] = "size"
    /\ arg' = [arg EXCEPT ![t] = Len(queue)]
    /\ lock' = NoThread
    /\ pc' = [pc EXCEPT ![t] = "idle"]
    /\ op' = [op EXCEPT ![t] = "none"]
    /\ UNCHANGED <<capacity, queue, not_empty, not_full, contVars, poison_pill,
                   role, cont, deadline, raised, todo, calls, logVars>>

\* a thread calls capacity()
CallCapacity(t) ==
    /\ role[t] = "caller" /\ pc[t] = "idle"
    /\ op' = [op EXCEPT ![t] = "capacity"]
    /\ arg' = [arg EXCEPT ![t] = None]
    /\ pc' = [pc EXCEPT ![t] = "read"]
    /\ raised' = [raised EXCEPT ![t] = FALSE]
    /\ UNCHANGED <<bufVars, contVars, poison_pill, role, cont, deadline, todo,
                   calls, logVars>>

\* faulty variant: capacity() returns the room that is left
CapacityReturnsRoom(t) ==
    /\ pc[t] = "read"
    /\ op[t] = "capacity"
    /\ arg' = [arg EXCEPT ![t] = capacity - Len(queue)]
    /\ pc' = [pc EXCEPT ![t] = "idle"]
    /\ op' = [op EXCEPT ![t] = "none"]
    /\ UNCHANGED <<bufVars, contVars, poison_pill, role, cont, deadline,
                   raised, todo, calls, logVars>>

\* capacity(): `return self._capacity`, without the lock
CapacityDone(t) ==
    /\ pc[t] = "read"
    /\ op[t] = "capacity"
    /\ arg' = [arg EXCEPT ![t] = capacity]
    /\ pc' = [pc EXCEPT ![t] = "idle"]
    /\ op' = [op EXCEPT ![t] = "none"]
    /\ UNCHANGED <<bufVars, contVars, poison_pill, role, cont, deadline,
                   raised, todo, calls, logVars>>

\* faulty variant: the test of __init__ lets capacity 0 through
BufferInitAllowsZero(t) ==
    /\ pc[t] = "new"
    /\ IF arg[t] < 0
       THEN /\ pc' = [pc EXCEPT ![t] = "ValueError"]
            /\ UNCHANGED <<bufVars, arg>>
       ELSE /\ capacity' = arg[t]
            /\ queue' = <<>>
            /\ lock' = NoThread
            /\ not_empty' = <<>>
            /\ not_full' = <<>>
            /\ pc' = [u \in Threads |-> IF pc[u] \in {"new", "unstarted"}
                                        THEN "idle" ELSE pc[u]]
            /\ arg' = [arg EXCEPT ![t] = None]
    /\ UNCHANGED <<contVars, poison_pill, role, op, cont, deadline, raised,
                   todo, calls, logVars>>

\* BoundedBuffer.__init__(capacity), called by thread t with capacity arg[t]:
\* `if capacity <= 0: raise ValueError`, else the attributes are created and
\* the threads that use the buffer can start
BufferInit(t) ==
    /\ pc[t] = "new"
    /\ IF arg[t] <= 0
       THEN /\ pc' = [pc EXCEPT ![t] = "ValueError"]
            /\ UNCHANGED <<bufVars, arg>>
       ELSE /\ capacity' = arg[t]
            /\ queue' = <<>>
            /\ lock' = NoThread
            /\ not_empty' = <<>>
            /\ not_full' = <<>>
            /\ pc' = [u \in Threads |-> IF pc[u] \in {"new", "unstarted"}
                                        THEN "idle" ELSE pc[u]]
            /\ arg' = [arg EXCEPT ![t] = None]
    /\ UNCHANGED <<contVars, poison_pill, role, op, cont, deadline, raised,
                   todo, calls, logVars>>

\* SpecBuffer: thread 1 constructs the buffer with a capacity in
\* -MaxCap..MaxCap, then the threads call its methods
InitNew ==
    /\ capacity = None
    /\ queue = <<>>
    /\ lock = NoLock
    /\ not_empty = <<>>
    /\ not_full = <<>>
    /\ putLog = <<>>
    /\ takeLog = <<>>
    /\ InitContainers(<<>>)
    /\ poison_pill = POISON_PILL
    /\ role = [t \in Threads |-> IF t <= MaxThreads THEN "caller" ELSE "off"]
    /\ pc = [t \in Threads |-> IF t = 1 THEN "new"
                                ELSE IF t <= MaxThreads THEN "unstarted"
                                ELSE "off"]
    /\ op = [t \in Threads |-> "none"]
    /\ \E c \in (0 - MaxCap)..MaxCap :
          arg = [t \in Threads |-> IF t = 1 THEN c ELSE None]
    /\ cont = [t \in Threads |-> "idle"]
    /\ deadline = [t \in Threads |-> "none"]
    /\ raised = [t \in Threads |-> FALSE]
    /\ calls = 0
    /\ todo = [t \in Threads |-> <<>>]

NextBuffer ==
    \/ \E t \in Threads :
          \/ BufferInit(t)
          \/ CallSize(t)
          \/ SizeDone(t)
          \/ CallCapacity(t)
          \/ CapacityDone(t)
    \/ Next

SpecBuffer == InitNew /\ [][NextBuffer]_vars

\* ------------------------------------------------------------- SourceContainer
\* where a thread continues after get_next returned item: the test's getter
\* stops on None and appends anything else to result, a reader calls again, a
\* Producer goes on to its `if item is None`
AfterGet(t, item) ==
    IF role[t] = "getter"
    THEN IF item = None THEN "done" ELSE "collect"
    ELSE IF role[t] = "producer" THEN "got"
    ELSE IF role[t] = "user" THEN "idle" ELSE "get_next"

\* a thread calls get_next()
CallGetNext(t) ==
    /\ role[t] \in {"reader", "getter"} /\ pc[t] = "get_next"
    /\ role[t] = "reader" => calls < MaxGets
    /\ calls' = IF role[t] = "reader" THEN calls + 1 ELSE calls
    /\ op' = [op EXCEPT ![t] = "get_next"]
    /\ arg' = [arg EXCEPT ![t] = None]
    /\ pc' = [pc EXCEPT ![t] = "src_acquire"]
    /\ UNCHANGED <<bufVars, contVars, poison_pill, role, cont, deadline,
                   raised, todo, logVars>>

\* get_next: `with self._lock:`
SrcAcquire(t) ==
    /\ pc[t] = "src_acquire"
    /\ source_lock = NoThread
    /\ source_lock' = t
    /\ pc' = [pc EXCEPT ![t] = "src_locked"]
    /\ UNCHANGED <<bufVars, destVars, source_items, source_index, dest_items,
                   poison_pill, role, op, arg, cont, deadline, raised, todo,
                   calls, logVars>>

\* get_next: `if self._index >= len(self._items): return None`, else
\* `item = self._items[self._index]`
SrcRead(t) ==
    /\ pc[t] = "src_locked" /\ source_lock = t
    /\ IF SourceExhausted
       THEN /\ arg' = [arg EXCEPT ![t] = None]
            /\ source_lock' = NoThread
            /\ op' = [op EXCEPT ![t] = "none"]
            /\ pc' = [pc EXCEPT ![t] = AfterGet(t, None)]
       ELSE /\ arg' = [arg EXCEPT ![t] = GetNext]
            /\ pc' = [pc EXCEPT ![t] = "src_inc"]
            /\ UNCHANGED <<source_lock, op>>
    /\ UNCHANGED <<bufVars, destVars, source_items, source_index, dest_items,
                   poison_pill, role, cont, deadline, raised, todo, calls,
                   logVars>>

\* faulty variant: the index is advanced by two
SrcIncSkips(t) ==
    /\ pc[t] = "src_inc" /\ source_lock = t
    /\ source_index' = source_index + 2
    /\ source_lock' = NoThread
    /\ op' = [op EXCEPT ![t] = "none"]
    /\ pc' = [pc EXCEPT ![t] = AfterGet(t, arg[t])]
    /\ UNCHANGED <<bufVars, destVars, source_items, dest_items, poison_pill, role, arg,
                   cont, deadline, raised, todo, calls, logVars>>

\* faulty variant: get_next returns without releasing the source's lock
SrcIncKeepsLock(t) ==
    /\ pc[t] = "src_inc" /\ source_lock = t
    /\ source_index' = source_index + 1
    /\ source_lock' = t
    /\ op' = [op EXCEPT ![t] = "none"]
    /\ pc' = [pc EXCEPT ![t] = AfterGet(t, arg[t])]
    /\ UNCHANGED <<bufVars, destVars, source_items, dest_items, poison_pill, role, arg,
                   cont, deadline, raised, todo, calls, logVars>>

\* get_next: `self._index += 1; return item`, the lock released
SrcInc(t) ==
    /\ pc[t] = "src_inc" /\ source_lock = t
    /\ source_index' = source_index + 1
    /\ source_lock' = NoThread
    /\ op' = [op EXCEPT ![t] = "none"]
    /\ pc' = [pc EXCEPT ![t] = AfterGet(t, arg[t])]
    /\ UNCHANGED <<bufVars, destVars, source_items, dest_items, poison_pill, role, arg,
                   cont, deadline, raised, todo, calls, logVars>>

\* the test's getter: `with lock: result.append(item)`; dest_items holds result
GetterCollect(t) ==
    /\ role[t] = "getter" /\ pc[t] = "collect"
    /\ dest_items' = Append(dest_items, arg[t])
    /\ pc' = [pc EXCEPT ![t] = "get_next"]
    /\ UNCHANGED <<bufVars, destVars, source_items, source_index, source_lock,
                   poison_pill, role, op, arg, cont, deadline, raised, todo,
                   calls, logVars>>

\* the lists explored for a SourceContainer used alone: 1..n with any of
\* its elements replaced by None
ListsWithNone ==
    UNION {{[i \in 1..n |-> IF i \in S THEN None ELSE i] : S \in SUBSET (1..n)} :
           n \in 0..MaxSource}

\* SpecSource: up to MaxThreads threads on one SourceContainer; a getter
\* calls get_next until it gets None, a reader keeps calling
InitSource ==
    /\ InitBuffer
    /\ capacity = 1
    /\ \E k \in 1..MaxThreads : \E r \in [1..k -> {"reader", "getter"}] :
          InitThreads([t \in Threads |-> IF t <= k THEN r[t] ELSE "off"])
    /\ \E items \in ListsWithNone : InitContainers(items)
    /\ poison_pill = POISON_PILL
    /\ todo = [t \in Threads |-> <<>>]

NextSource ==
    \E t \in Threads :
        \/ CallGetNext(t)
        \/ SrcAcquire(t)
        \/ SrcRead(t)
        \/ SrcInc(t)
        \/ GetterCollect(t)

SpecSource == InitSource /\ [][NextSource]_vars

\* ------------------------------------------------------------- DestinationContainer
\* the content of the list thread t got from get_items(), as it is now
SnapshotValue(t) ==
    IF snapshot[t].ref = "same" THEN dest_items ELSE snapshot[t].items

\* the test's adder: `for i in range(start, start + count): dest.add(i)`
AdderNext(t) ==
    /\ role[t] = "adder" /\ pc[t] = "for"
    /\ IF todo[t] = <<>>
       THEN /\ pc' = [pc EXCEPT ![t] = "done"]
            /\ UNCHANGED <<arg, op, todo>>
       ELSE /\ arg' = [arg EXCEPT ![t] = Head(todo[t])]
            /\ todo' = [todo EXCEPT ![t] = Tail(todo[t])]
            /\ op' = [op EXCEPT ![t] = "add"]
            /\ pc' = [pc EXCEPT ![t] = "dst_acquire"]
    /\ UNCHANGED <<bufVars, contVars, poison_pill, role, cont, deadline,
                   raised, calls, logVars>>

\* a thread calls get_items()
CallGetItems(t) ==
    /\ role[t] = "snapper" /\ pc[t] = "idle"
    /\ op' = [op EXCEPT ![t] = "get_items"]
    /\ pc' = [pc EXCEPT ![t] = "dst_acquire"]
    /\ UNCHANGED <<bufVars, contVars, poison_pill, role, arg, cont, deadline,
                   raised, todo, calls, logVars>>

\* a thread calls DestinationContainer.size()
CallDestSize(t) ==
    /\ role[t] = "snapper" /\ pc[t] = "idle"
    /\ op' = [op EXCEPT ![t] = "dest_size"]
    /\ pc' = [pc EXCEPT ![t] = "dst_acquire"]
    /\ UNCHANGED <<bufVars, contVars, poison_pill, role, arg, cont, deadline,
                   raised, todo, calls, logVars>>

\* add / get_items / size: `with self._lock:`
DstAcquire(t) ==
    /\ pc[t] = "dst_acquire"
    /\ dest_lock = NoThread
    /\ dest_lock' = t
    /\ pc' = [pc EXCEPT ![t] = "dst_locked"]
    /\ UNCHANGED <<bufVars, source_items, source_index, source_lock,
                   dest_items, snapshot, poison_pill, role, op, arg, cont,
                   deadline, raised, todo, calls, logVars>>

\* where a thread continues after add returned
AfterAdd(t) ==
    IF role[t] = "consumer" THEN "take"
    ELSE IF role[t] = "user" THEN "idle" ELSE "for"

\* faulty variant: insert(0, item), the item goes to the front
AddPrepends(t) ==
    /\ pc[t] = "dst_locked" /\ dest_lock = t
    /\ op[t] = "add"
    /\ dest_items' = <<arg[t]>> \o dest_items
    /\ dest_lock' = NoThread
    /\ op' = [op EXCEPT ![t] = "none"]
    /\ pc' = [pc EXCEPT ![t] = AfterAdd(t)]
    /\ UNCHANGED <<bufVars, source_items, source_index, source_lock, snapshot,
                   poison_pill, role, arg, cont, deadline, raised, todo,
                   calls, logVars>>

\* add: `self._items.append(item)`, the lock released
AddDone(t) ==
    /\ pc[t] = "dst_locked" /\ dest_lock = t
    /\ op[t] = "add"
    /\ dest_items' = Append(dest_items, arg[t])
    /\ dest_lock' = NoThread
    /\ op' = [op EXCEPT ![t] = "none"]
    /\ pc' = [pc EXCEPT ![t] = AfterAdd(t)]
    /\ UNCHANGED <<bufVars, source_items, source_index, source_lock, snapshot,
                   poison_pill, role, arg, cont, deadline, raised, todo,
                   calls, logVars>>

\* faulty variant: `return self._items`, the container's own list
GetItemsNoCopy(t) ==
    /\ pc[t] = "dst_locked" /\ dest_lock = t
    /\ op[t] = "get_items"
    /\ snapshot' = [snapshot EXCEPT ![t] = [ref |-> "same", items |-> <<>>]]
    /\ dest_lock' = NoThread
    /\ op' = [op EXCEPT ![t] = "none"]
    /\ pc' = [pc EXCEPT ![t] = "idle"]
    /\ UNCHANGED <<bufVars, source_items, source_index, source_lock,
                   dest_items, poison_pill, role, arg, cont, deadline, raised,
                   todo, calls, logVars>>

\* get_items: `return list(self._items)`, a new list with the same elements
GetItemsDone(t) ==
    /\ pc[t] = "dst_locked" /\ dest_lock = t
    /\ op[t] = "get_items"
    /\ snapshot' = [snapshot EXCEPT ![t] = [ref |-> "copy", items |-> dest_items]]
    /\ dest_lock' = NoThread
    /\ op' = [op EXCEPT ![t] = "none"]
    /\ pc' = [pc EXCEPT ![t] = "idle"]
    /\ UNCHANGED <<bufVars, source_items, source_index, source_lock,
                   dest_items, poison_pill, role, arg, cont, deadline, raised,
                   todo, calls, logVars>>

\* DestinationContainer.size: `return len(self._items)`
DestSizeDone(t) ==
    /\ pc[t] = "dst_locked" /\ dest_lock = t
    /\ op[t] = "dest_size"
    /\ arg' = [arg EXCEPT ![t] = Len(dest_items)]
    /\ dest_lock' = NoThread
    /\ op' = [op EXCEPT ![t] = "none"]
    /\ pc' = [pc EXCEPT ![t] = "idle"]
    /\ UNCHANGED <<bufVars, source_items, source_index, source_lock,
                   dest_items, snapshot, poison_pill, role, cont, deadline,
                   raised, todo, calls, logVars>>

\* threads 1..na are adders, the next ns (at most one) call get_items() and
\* size()
DestRoles(na, ns) ==
    [t \in Threads |-> IF t <= na THEN "adder"
                       ELSE IF t <= na + ns THEN "snapper" ELSE "off"]

\* SpecDest: adders with disjoint ranges of k items each (source_items
\* records all of them) and threads reading one DestinationContainer
InitDest ==
    /\ InitBuffer
    /\ capacity = 1
    /\ poison_pill = POISON_PILL
    /\ \E na \in 1..MaxThreads, ns \in 0..1, k \in 0..MaxItems :
          /\ na * k <= MaxItems
          /\ InitContainers(Range(na * k))
          /\ InitThreads(DestRoles(na, ns))
          /\ todo = [t \in Threads |->
                      IF t <= na THEN [i \in 1..k |-> (t - 1) * k + i]
                      ELSE <<>>]

NextDest ==
    \E t \in Threads :
        \/ AdderNext(t)
        \/ CallGetItems(t)
        \/ CallDestSize(t)
        \/ DstAcquire(t)
        \/ AddDone(t)
        \/ GetItemsDone(t)
        \/ DestSizeDone(t)

SpecDest == InitDest /\ [][NextDest]_vars

\* ------------------------------------------------------------- pipeline, lock by lock
\* Producer.run: `item = self._source.get_next()`
ProducerCallGetNext(t) ==
    /\ role[t] = "producer" /\ pc[t] = "get_next"
    /\ op' = [op EXCEPT ![t] = "get_next"]
    /\ arg' = [arg EXCEPT ![t] = None]
    /\ pc' = [pc EXCEPT ![t] = "src_acquire"]
    /\ UNCHANGED <<bufVars, contVars, poison_pill, role, cont, deadline,
                   raised, todo, calls, logVars>>

\* Producer.run: `if item is None: break` and `put(self._poison_pill)`, else
\* `put(item)`
ProducerPut(t) ==
    /\ role[t] = "producer" /\ pc[t] = "got"
    /\ IF arg[t] = None
       THEN /\ arg' = [arg EXCEPT ![t] = poison_pill]
            /\ cont' = [cont EXCEPT ![t] = "done"]
       ELSE /\ cont' = [cont EXCEPT ![t] = "get_next"]
            /\ UNCHANGED arg
    /\ op' = [op EXCEPT ![t] = "put"]
    /\ pc' = [pc EXCEPT ![t] = "acquire"]
    /\ UNCHANGED <<bufVars, contVars, poison_pill, role, deadline, raised,
                   todo, calls, logVars>>

\* Consumer.run: `self._destination.add(item)`
ConsumerCallAdd(t) ==
    /\ role[t] = "consumer" /\ pc[t] = "add"
    /\ op' = [op EXCEPT ![t] = "add"]
    /\ pc' = [pc EXCEPT ![t] = "dst_acquire"]
    /\ UNCHANGED <<bufVars, contVars, poison_pill, role, arg, cont, deadline,
                   raised, todo, calls, logVars>>

\* Consumer.run: the next `item = self._buffer.take()`
ConsumerCallTake(t) ==
    /\ role[t] = "consumer" /\ pc[t] = "take"
    /\ op' = [op EXCEPT ![t] = "take"]
    /\ arg' = [arg EXCEPT ![t] = None]
    /\ pc' = [pc EXCEPT ![t] = "acquire"]
    /\ UNCHANGED <<bufVars, contVars, poison_pill, role, cont, deadline,
                   raised, todo, calls, logVars>>

\* SpecLocks: Producers and Consumers where taking a lock, each statement
\* under it and releasing it are steps of their own, for the three locks
InitLocks ==
    /\ InitBuffer
    /\ \E np \in 1..MaxThreads, nc \in 1..MaxThreads :
          /\ np + nc <= MaxThreads
          /\ InitThreads(PipelineRoles(np, nc))
    /\ \E items \in SourceLists : InitContainers(items)
    /\ poison_pill = POISON_PILL
    /\ todo = [t \in Threads |-> <<>>]

NextLocks ==
    \E t \in Threads :
        \/ ProducerCallGetNext(t)
        \/ SrcAcquire(t)
        \/ SrcRead(t)
        \/ SrcInc(t)
        \/ ProducerPut(t)
        \/ Acquire(t)
        \/ PutWait(t)
        \/ PutDone(t)
        \/ TakeWait(t)
        \/ TakeDone(t)
        \/ ConsumerCallAdd(t)
        \/ DstAcquire(t)
        \/ AddDone(t)
        \/ ConsumerCallTake(t)

SpecLocks == InitLocks /\ [][NextLocks]_vars

\* ------------------------------------------------------------- the calls that do not wait
\* the operations other than put and take that take a lock
ShortOps == {"size", "get_next", "add", "get_items", "dest_size"}

\* the first step inside each of them
EntryPc(o) ==
    CASE o = "size" -> "acquire"
      [] o = "get_next" -> "src_acquire"
      [] OTHER -> "dst_acquire"

\* a thread calls one of them; the items added are 1, 2, ... up to PipeItems
UserCall(t) ==
    /\ role[t] = "user" /\ pc[t] = "idle"
    /\ \E o \in ShortOps :
          /\ o = "add" => Len(dest_items) + Cardinality({u \in Threads : op[u] = "add"}) < PipeItems
          /\ op' = [op EXCEPT ![t] = o]
          /\ arg' = [arg EXCEPT ![t] = IF o = "add" THEN Len(dest_items) + 1
                                       ELSE None]
          /\ pc' = [pc EXCEPT ![t] = EntryPc(o)]
    /\ UNCHANGED <<bufVars, contVars, poison_pill, role, cont, deadline,
                   raised, todo, calls, logVars>>

\* the steps of thread t inside a call
FairStep(t) ==
    \/ InsideStep(t)
    \/ SizeDone(t)
    \/ SrcAcquire(t)
    \/ SrcRead(t)
    \/ SrcInc(t)
    \/ DstAcquire(t)
    \/ AddDone(t)
    \/ GetItemsDone(t)
    \/ DestSizeDone(t)

\* SpecFair: two threads, one buffer, one source, one destination; thread 2
\* calls the operations other than put and take, thread 1 does the same or
\* calls put or take without timeout;
\* fair scheduling: a thread inside a call that can take a step again and
\* again does take one (a lock that is free again and again is obtained)
InitFair ==
    /\ InitBuffer
    /\ capacity = 1
    /\ \E r \in {"caller", "user"} :
          InitThreads([t \in Threads |-> IF t = 1 THEN r
                                         ELSE IF t = 2 THEN "user"
                                         ELSE "off"])
    /\ InitContainers(Range(PipeItems))
    /\ poison_pill = POISON_PILL
    /\ todo = [t \in Threads |-> <<>>]

NextFair ==
    \E t \in Threads :
        \/ CallPut(t, {"none"})
        \/ CallTake(t, {"none"})
        \/ UserCall(t)
        \/ FairStep(t)

SpecFair ==
    /\ InitFair
    /\ [][NextFair]_vars
    /\ \A t \in 1..2 : SF_vars(FairStep(t))

\* ------------------------------------------------------------- abnormal exits
\* Consumer.run: take() has returned an item and a statement after it raises:
\* the comparison with the pill or add (the item is dropped) or the logging
\* call (the item has been added); `except Exception` logs it and run
\* returns. One Consumer of a run does so.
ConsumerCrash(t) ==
    /\ role[t] = "consumer" /\ pc[t] = "add"
    /\ \A u \in Threads : ~raised[u]
    /\ \E added \in BOOLEAN :
          dest_items' = IF added THEN Append(dest_items, arg[t]) ELSE dest_items
    /\ raised' = [raised EXCEPT ![t] = TRUE]
    /\ pc' = [pc EXCEPT ![t] = "done"]
    /\ UNCHANGED <<bufVars, destVars, source_items, source_index, source_lock,
                   poison_pill, role, op, arg, cont, deadline, todo, calls,
                   logVars>>

\* SpecCrash: Producers and Consumers, one of the Consumers may exit
\* abnormally
InitCrash ==
    /\ InitBuffer
    /\ \E np \in 1..MaxWorkers, nc \in 1..MaxWorkers :
          /\ np + nc <= MaxWorkers
          /\ InitThreads(PipelineRoles(np, nc))
    /\ \E n \in 0..MaxItems : InitContainers(Range(n))
    /\ poison_pill = POISON_PILL
    /\ todo = [t \in Threads |-> <<>>]

NextCrash ==
    \E t \in Threads :
        \/ ProducerFetch(t)
        \/ ConsumerAdd(t)
        \/ PipeStep(t)
        \/ ConsumerCrash(t)

SpecCrash == InitCrash /\ [][NextCrash]_vars /\ WF_vars(NextCrash)

\* Producer.run: get_next() or put() raises inside the try block,
\* `except Exception` logs it and run returns; the put of the pill, which is
\* inside the same try block, is skipped. One Producer of a run does so.
ProducerCrash(t) ==
    /\ role[t] = "producer"
    /\ pc[t] = "get_next" \/ (pc[t] = "acquire" /\ op[t] = "put")
    /\ \A u \in Threads : ~raised[u]
    /\ raised' = [raised EXCEPT ![t] = TRUE]
    /\ pc' = [pc EXCEPT ![t] = "done"]
    /\ op' = [op EXCEPT ![t] = "none"]
    /\ UNCHANGED <<bufVars, contVars, poison_pill, role, arg, cont, deadline,
                   todo, calls, logVars>>

\* SpecAbandon: Producers and Consumers, one of the Producers may exit
\* abnormally
NextAbandon ==
    \E t \in Threads :
        \/ ProducerFetch(t)
        \/ ConsumerAdd(t)
        \/ PipeStep(t)
        \/ ProducerCrash(t)

SpecAbandon == InitCrash /\ [][NextAbandon]_vars /\ WF_vars(NextAbandon)

\* SpecPills: the same steps from the initial states of SpecPipe (a source of
\* PipeItems elements at most)
SpecPills == InitPipe /\ [][NextAbandon]_vars /\ WF_vars(NextAbandon)

\* ------------------------------------------------------------- equal counts
\* SpecEqual: n Producers sharing one source and n Consumers, as in the
\* concurrent access analysis, over every source list of SourceLists
InitEqual ==
    /\ InitBuffer
    /\ \E n \in 1..(MaxWorkers \div 2) : InitThreads(PipelineRoles(n, n))
    /\ \E items \in SourceLists : InitContainers(items)
    /\ poison_pill = POISON_PILL
    /\ todo = [t \in Threads |-> <<>>]

SpecEqual == InitEqual /\ [][NextPipe]_vars /\ WF_vars(NextPipe)

\* ------------------------------------------------------------- any pill
\* the values a caller may pass as poison_pill: an object of its own, None
\* (as the tests do), or a value that is also a payload
PillValues == {POISON_PILL, None} \cup (1..MaxItems)

\* SpecAnyPill: n Producers and n Consumers constructed with the same
\* caller-supplied poison_pill, over the source lists 1..k
InitAnyPill ==
    /\ InitBuffer
    /\ \E n \in 1..(MaxWorkers \div 2) : InitThreads(PipelineRoles(n, n))
    /\ \E k \in 0..MaxItems : InitContainers(Range(k))
    /\ poison_pill \in PillValues
    /\ todo = [t \in Threads |-> <<>>]

SpecAnyPill == InitAnyPill /\ [][NextPipe]_vars /\ WF_vars(NextPipe)

\* ------------------------------------------------------------- no Producer
\* threads 1..nc are Consumers, the next no (at most one) is a thread of the
\* caller's that puts into the buffer
ZeroRoles(nc, no) ==
    [t \in Threads |-> IF t <= nc THEN "consumer"
                       ELSE IF t <= nc + no THEN "putter" ELSE "off"]

\* SpecZero: Consumers started on an empty buffer and no Producer; another
\* thread may put items and, last, the pill
InitZero ==
    /\ InitBuffer
    /\ \E nc \in 1..(MaxWorkers - 1), no \in 0..1 :
          InitThreads(ZeroRoles(nc, no))
    /\ InitContainers(<<>>)
    /\ poison_pill = POISON_PILL
    /\ todo = [t \in Threads |-> <<>>]

NextZero ==
    \E t \in Threads :
        \/ CallPut(t, {"none"})
        \/ ConsumerAdd(t)
        \/ PipeStep(t)

SpecZero == InitZero /\ [][NextZero]_vars /\ WF_vars(NextZero)

\* ------------------------------------------------------------- sequential use
\* SpecSeq: one thread calls put, take (with any timeout) and size one after
\* the other, as the tests of TestBoundedBuffer do
InitSeq ==
    /\ InitBuffer
    /\ InitThreads([t \in Threads |-> IF t = 1 THEN "caller" ELSE "off"])
    /\ InitContainers(<<>>)
    /\ poison_pill = POISON_PILL
    /\ todo = [t \in Threads |-> <<>>]

NextSeq ==
    \/ \E t \in Threads :
          \/ CallSize(t)
          \/ SizeDone(t)
    \/ Next

SpecSeq == InitSeq /\ [][NextSeq]_vars

\* ------------------------------------------------------------- wake-ups and timeouts
\* Condition.wait(remaining) gives up waiting because the time is up; the
\* waiter stays on the condition's list until it has the lock again, so a
\* notify() in between still picks it
WaitTimeoutLate(t) ==
    /\ pc[t] = "waiting"
    /\ deadline[t] = "passed"
    /\ pc' = [pc EXCEPT ![t] = "timedout"]
    /\ UNCHANGED <<bufVars, contVars, poison_pill, role, op, arg, cont,
                   deadline, raised, todo, calls, logVars>>

\* the waiter whose time was up re-acquires the lock and takes itself off the
\* condition's list, if no notify() has done so
AcquireTimedOut(t) ==
    /\ pc[t] = "timedout"
    /\ lock = NoThread
    /\ lock' = t
    /\ not_full' = Remove(not_full, t)
    /\ not_empty' = Remove(not_empty, t)
    /\ pc' = [pc EXCEPT ![t] = "locked"]
    /\ UNCHANGED <<capacity, queue, contVars, poison_pill, role, op, arg, cont,
                   deadline, raised, todo, calls, logVars>>

\* SpecWake: MaxThreads + 1 threads, the first np calling put only and the
\* others take only, with any timeout, on a buffer of capacity 1
InitWake ==
    /\ InitBuffer
    /\ capacity = 1
    /\ \E np \in 0..(MaxThreads + 1) :
          InitThreads([t \in Threads |->
                          IF t <= np THEN "putter"
                          ELSE IF t <= MaxThreads + 1 THEN "taker" ELSE "off"])
    /\ InitContainers(<<>>)
    /\ poison_pill = POISON_PILL
    /\ todo = [t \in Threads |-> <<>>]

NextWake ==
    \/ \E t \in Threads :
          \/ WaitTimeoutLate(t)
          \/ AcquireTimedOut(t)
    \/ Next

SpecWake == InitWake /\ [][NextWake]_vars

\* ------------------------------------------------------------- the clock
\* time.monotonic() advances: a call whose end_time is two ticks away
\* ("pending2") has one tick left ("pending")
TickDown(t) ==
    /\ deadline[t] = "pending2"
    /\ deadline' = [deadline EXCEPT ![t] = "pending"]
    /\ UNCHANGED <<bufVars, contVars, poison_pill, role, pc, op, arg, cont,
                   raised, todo, calls, logVars>>

\* SpecClock: the callers of Spec on a buffer of capacity 1, a timed call
\* entering with its end_time two ticks away
InitClock == Init /\ capacity = 1

NextClock ==
    \E t \in Threads :
        \/ CallPut(t, {"none", "pending2"})
        \/ CallTake(t, {"none", "pending2"})
        \/ TickDown(t)
        \/ DeadlinePass(t)
        \/ Acquire(t)
        \/ PutWait(t)
        \/ PutTimeout(t)
        \/ PutDone(t)
        \/ TakeWait(t)
        \/ TakeTimeout(t)
        \/ TakeDone(t)
        \/ WaitTimeout(t)

SpecClock == InitClock /\ [][NextClock]_vars

\* ------------------------------------------------------------- claims
\* C1: in every reachable state of threads calling put and take, with and
\* without timeouts, 0 <= len(queue) <= capacity, poison values included.
C1_CapacityInvariant ==
    /\ capacity >= 1
    /\ 0 <= Len(queue)
    /\ Len(queue) <= capacity

\* a put is parked on a full queue that holds a poison value
C1_Witness ==
    /\ Len(queue) = capacity
    /\ \E i \in 1..Len(queue) : queue[i] = poison_pill
    /\ not_full # <<>>

\* C2: queue-wide FIFO: the k-th item popped is the k-th item appended, and
\* the items appended and not yet popped are the queue, in order.
C2_Fifo ==
    /\ Len(takeLog) <= Len(putLog)
    /\ \A k \in 1..Len(takeLog) : takeLog[k] = putLog[k]
    /\ putLog = takeLog \o queue

\* two different items went through a queue that held both at once
C2_Witness ==
    /\ Len(takeLog) >= 2
    /\ takeLog[1] # takeLog[2]
    /\ capacity >= 2

\* thread t is inside a take() without timeout
InTake(t) == op[t] = "take" /\ deadline[t] = "none"

\* no thread other than t calls take
OnlyTaker(t) == \A u \in Threads \ {t} : role[u] # "taker"

\* C9: an untimed take() on an empty buffer is parked without the lock; it
\* returns only from a non-empty queue, with the head item; and when another
\* thread's put(x) has made x the head and no other thread takes, the take
\* returns x.
C9_BlockingTake ==
    /\ [](\A t \in Threads : pc[t] = "waiting" => lock # t)
    /\ [][\A t \in Threads : InTake(t) /\ op'[t] = "none" =>
              queue # <<>> /\ arg'[t] = Head(queue)]_vars
    /\ \A t \in 1..MaxThreads : \A x \in (1..MaxPuts) \cup {POISON_PILL} :
          (InTake(t) /\ OnlyTaker(t) /\ queue # <<>> /\ Head(queue) = x)
              ~> (op[t] = "none" /\ arg[t] = x)

\* a taker parked on the empty queue has been woken by another thread's put
C9_Witness ==
    \E t \in Threads :
        /\ InTake(t) /\ OnlyTaker(t)
        /\ pc[t] = "reacquire"
        /\ queue # <<>>

\* thread t is inside a put() without timeout
InPut(t) == op[t] = "put" /\ deadline[t] = "none"

\* no thread other than t calls put
OnlyPutter(t) == \A u \in Threads \ {t} : role[u] # "putter"

\* C10: an untimed put() on a full buffer completes only from a queue that is
\* not full, appending its item at the tail; and when another thread's take
\* has made room and no other thread puts, the put completes.
C10_BlockingPut ==
    /\ [][\A t \in Threads : InPut(t) /\ op'[t] = "none" =>
              Len(queue) < capacity /\ queue' = Append(queue, arg[t])]_vars
    /\ \A t \in 1..MaxThreads : \A x \in (1..MaxPuts) \cup {POISON_PILL} :
          (InPut(t) /\ OnlyPutter(t) /\ Len(queue) < capacity /\ arg[t] = x)
              ~> (op[t] = "none" /\ putLog # <<>> /\ putLog[Len(putLog)] = x)

\* a putter parked on the full queue has been woken by another thread's take
C10_Witness ==
    \E t \in Threads :
        /\ InPut(t) /\ OnlyPutter(t)
        /\ pc[t] = "reacquire"
        /\ Len(queue) < capacity

\* no step of the pipeline or of the test harness is possible
StuckPipe == ~ENABLED NextPipe

StuckTest == ~ENABLED NextTest

\* C3: producers putting disjoint items, consumers taking until the poison
\* value, one poison value per consumer put after the producers have
\* finished: every run ends, and it ends with all threads terminated, the
\* queue empty and the consumed items equal to the produced items as
\* multisets; no item is ever consumed twice.
C3_NoLossNoDup ==
    /\ [](\A x \in 1..MaxItems : Count(x, dest_items) <= 1)
    /\ [](StuckTest =>
            /\ AllDone
            /\ queue = <<>>
            /\ Len(dest_items) = Len(source_items)
            /\ \A x \in 1..MaxItems :
                  Count(x, dest_items) = Count(x, source_items))
    /\ [][Progress' > Progress]_vars

\* two producers and two consumers have finished a run through a queue of
\* capacity 1
C3_Witness ==
    /\ AllDone
    /\ Cardinality(Producers) = 2 /\ nCons = 2
    /\ capacity = 1
    /\ Len(dest_items) = 2

\* C4 as stated: one Producer and one Consumer end with the destination
\* equal to the source list, element for element.
C4_Transfer == StuckPipe => AllDone /\ dest_items = source_items

\* C4 for source lists without None elements
C4_TransferNoNone ==
    /\ []((StuckPipe /\ Count(None, source_items) = 0) =>
            AllDone /\ dest_items = source_items)
    /\ [][Progress' > Progress]_vars

\* C5: NWorkers Producers and NWorkers Consumers: a Consumer stops exactly
\* when it takes a shutdown signal, so each takes at most one; every run
\* ends, with all threads terminated and NWorkers signals taken.
C5_Shutdown ==
    /\ [](PillsTaken = Cardinality(DoneConsumers))
    /\ [](\A c \in DoneConsumers : arg[c] = poison_pill)
    /\ [](StuckPipe => AllDone /\ PillsTaken = NWorkers /\ queue = <<>>)
    /\ [][\A c \in Consumers : pc[c] = "done" => pc'[c] = "done"]_vars
    /\ [][Progress' > Progress]_vars

\* the three consumers have taken one signal each and items went through
C5_Witness ==
    /\ AllDone
    /\ nCons = NWorkers /\ nProd = NWorkers
    /\ PillsTaken = NWorkers
    /\ Len(dest_items) = PipeItems

\* C6 as stated: when the run has ended, consumer_count signals were put.
C6_PillsEqualConsumers == StuckPipe => PillsPut = nCons

\* C6 amended: the signals put are one per finished Producer, whatever the
\* number of Consumers; at the end of a run with equal counts that is
\* consumer_count.
C6_PillsEqualProducers ==
    /\ PillsPut = Cardinality(DoneProducers)
    /\ PillsPut <= nProd
    /\ (StuckPipe /\ nProd = nCons) => PillsPut = nCons

\* two Producers have put two signals for a single Consumer
C6_Witness ==
    /\ nProd = 2 /\ nCons = 1
    /\ PillsPut = 2
    /\ StuckPipe

\* C7 as stated: every run ends with all threads terminated and the buffer
\* empty.
C7_AllTerminate == StuckPipe => AllDone /\ queue = <<>>

\* C7 amended: with as many Producers as Consumers every run ends, with all
\* threads terminated and the buffer empty.
C7_EqualCountsTerminate ==
    /\ []((StuckPipe /\ nProd = nCons) => AllDone /\ queue = <<>>)
    /\ [][Progress' > Progress]_vars

\* two Producers and two Consumers have finished a run that moved items
C7_Witness ==
    /\ nProd = 2 /\ nCons = 2
    /\ AllDone
    /\ queue = <<>>
    /\ Len(dest_items) = PipeItems

\* a Producer that still has an ordinary item to enqueue
HoldsItem(p) == role[p] = "producer" /\ op[p] = "put" /\ cont[p] = "get_next"

C11_Timeout ==
    /\ [][\A t \in Threads : (raised'[t] /\ ~raised[t]) =>
              /\ deadline[t] = "passed"
              /\ op[t] = "put" => Len(queue) = capacity
              /\ op[t] = "take" => queue = <<>>]_vars
    /\ [](\A t \in Threads :
            (pc[t] = "waiting" /\ deadline[t] = "passed") => ENABLED WaitTimeout(t))
    /\ [](\A t \in Threads :
            (Holds(t) /\ deadline[t] = "passed" /\ op[t] = "put"
                 /\ Len(queue) = capacity) =>
                ENABLED PutTimeout(t) /\ ~ENABLED PutWait(t) /\ ~ENABLED PutDone(t))
    /\ [](\A t \in Threads :
            (Holds(t) /\ deadline[t] = "passed" /\ op[t] = "take"
                 /\ queue = <<>>) =>
                ENABLED TakeTimeout(t) /\ ~ENABLED TakeWait(t) /\ ~ENABLED TakeDone(t))

\* a take has timed out on the empty queue and a put on the full queue
C11_Witness ==
    \E t, u \in Threads :
        /\ raised[t] /\ arg[t] = None
        /\ raised[u] /\ arg[u] # None
        /\ Len(queue) = capacity

PutReturns(t) == op[t] = "put" /\ op'[t] = "none" /\ ~raised'[t]

TakeReturns(t) == op[t] = "take" /\ op'[t] = "none" /\ ~raised'[t]

\* C13: a put that returns normally takes the oldest waiter, if any, off the
\* not-empty condition and wakes that thread and no other, and leaves the
\* not-full condition alone; a take that returns normally does the same with
\* the two conditions exchanged; the threads parked on not-empty are inside
\* take and those parked on not-full are inside put, so a put never wakes a
\* put nor a take a take, and never more than one thread is woken.
C13_NotifyOne ==
    /\ [][\A t \in Threads : PutReturns(t) =>
              /\ not_full' = not_full
              /\ not_empty' = IF not_empty = <<>> THEN <<>> ELSE Tail(not_empty)
              /\ \A u \in Threads \ {t} : pc'[u] # pc[u] =>
                    /\ not_empty # <<>> /\ u = Head(not_empty)
                    /\ pc'[u] = "reacquire"
              /\ not_empty # <<>> => pc'[Head(not_empty)] = "reacquire"]_vars
    /\ [][\A t \in Threads : TakeReturns(t) =>
              /\ not_empty' = not_empty
              /\ not_full' = IF not_full = <<>> THEN <<>> ELSE Tail(not_full)
              /\ \A u \in Threads \ {t} : pc'[u] # pc[u] =>
                    /\ not_full # <<>> /\ u = Head(not_full)
                    /\ pc'[u] = "reacquire"
              /\ not_full # <<>> => pc'[Head(not_full)] = "reacquire"]_vars
    /\ [](\A i \in DOMAIN not_empty :
            op[not_empty[i]] = "take" /\ pc[not_empty[i]] = "waiting")
    /\ [](\A i \in DOMAIN not_full :
            op[not_full[i]] = "put" /\ pc[not_full[i]] = "waiting")

\* a put has woken the older of two parked takers, the other is still parked
C13_Witness ==
    \E u, v \in Threads :
        /\ op[u] = "take" /\ pc[u] = "reacquire"
        /\ op[v] = "take" /\ pc[v] = "waiting"
        /\ not_empty = <<v>>
        /\ queue # <<>>

\* C14: a woken thread does nothing but take the lock again, which brings it
\* to the test of its loop; at that test a take facing an empty queue cannot
\* pop and a put facing a full queue cannot append: the one step open to it
\* is to wait again or, its deadline passed, to raise; and no take returns
\* from an empty queue, no put from a full one.
C14_Recheck ==
    /\ [][\A t \in Threads : (pc[t] = "reacquire" /\ pc'[t] # "reacquire") =>
              /\ pc'[t] = "locked" /\ lock' = t
              /\ queue' = queue /\ op'[t] = op[t]]_vars
    /\ [](\A t \in Threads : (Holds(t) /\ op[t] = "take" /\ queue = <<>>) =>
              /\ ~ENABLED TakeDone(t)
              /\ IF deadline[t] = "passed"
                 THEN ENABLED TakeTimeout(t) /\ ~ENABLED TakeWait(t)
                 ELSE ENABLED TakeWait(t) /\ ~ENABLED TakeTimeout(t))
    /\ [](\A t \in Threads :
              (Holds(t) /\ op[t] = "put" /\ Len(queue) = capacity) =>
              /\ ~ENABLED PutDone(t)
              /\ IF deadline[t] = "passed"
                 THEN ENABLED PutTimeout(t) /\ ~ENABLED PutWait(t)
                 ELSE ENABLED PutWait(t) /\ ~ENABLED PutTimeout(t))
    /\ [][\A t \in Threads : TakeReturns(t) => queue # <<>>]_vars
    /\ [][\A t \in Threads : PutReturns(t) => Len(queue) < capacity]_vars

\* a take without timeout has been notified, and the other thread has taken
\* the new item before the woken thread got the lock
C14_Witness ==
    \E t \in Threads :
        /\ op[t] = "take" /\ deadline[t] = "none"
        /\ pc[t] = "reacquire"
        /\ queue = <<>>
        /\ takeLog # <<>>

\* C15: in every state of a pipeline the destination holds no poison pill,
\* and the step in which a Consumer's take returns the pill terminates that
\* Consumer and leaves the destination as it was; a terminated Consumer
\* never moves again.
C15_PillNotInDest ==
    /\ [](Count(poison_pill, dest_items) = 0)
    /\ [][\A c \in Threads :
              (role[c] = "consumer" /\ TakeReturns(c) /\ arg'[c] = poison_pill) =>
                  pc'[c] = "done" /\ dest_items' = dest_items]_vars
    /\ [][\A c \in Threads : pc[c] = "done" => pc'[c] = "done"]_vars

\* a Consumer has terminated on the pill after the source's items reached
\* the destination
C15_Witness ==
    /\ \E c \in Threads :
          role[c] = "consumer" /\ pc[c] = "done" /\ arg[c] = poison_pill
    /\ dest_items = source_items
    /\ dest_items # <<>>

\* C16: __init__ with capacity <= 0 ends with ValueError and has created
\* nothing: no capacity, no lock, no queue, no conditions, and no thread ever
\* operates on a buffer afterwards; with capacity >= 1 it creates the buffer
\* with that capacity, a free lock, an empty queue and no waiters; a buffer
\* that exists has a capacity >= 1.
C16_Constructor ==
    /\ [][\A t \in Threads : (pc[t] = "new" /\ pc'[t] # "new") =>
              IF arg[t] <= 0
              THEN /\ pc'[t] = "ValueError"
                   /\ capacity' = capacity /\ lock' = lock /\ queue' = queue
                   /\ not_empty' = not_empty /\ not_full' = not_full
              ELSE /\ pc'[t] = "idle"
                   /\ capacity' = arg[t] /\ lock' = NoThread /\ queue' = <<>>
                   /\ not_empty' = <<>> /\ not_full' = <<>>]_vars
    /\ []((\E t \in Threads : pc[t] = "ValueError") =>
            /\ capacity = None /\ lock = NoLock
            /\ queue = <<>> /\ not_empty = <<>> /\ not_full = <<>>
            /\ putLog = <<>> /\ takeLog = <<>>
            /\ \A u \in Threads : op[u] = "none")
    /\ [](lock # NoLock => capacity >= 1)

\* the construction with capacity 0 has been rejected
C16_Witness == \E t \in Threads : pc[t] = "ValueError" /\ arg[t] = 0

\* C17: once the buffer exists no step changes its capacity, whether it
\* belongs to a put, a take, a size, a capacity or a call that times out; and
\* capacity() returns that capacity and changes nothing of the buffer.
C17_CapacityImmutable ==
    /\ [][lock # NoLock => capacity' = capacity]_vars
    /\ [][\A t \in Threads : (op[t] = "capacity" /\ op'[t] = "none") =>
              /\ arg'[t] = capacity
              /\ queue' = queue /\ lock' = lock
              /\ not_empty' = not_empty /\ not_full' = not_full]_vars

\* capacity() has returned 2 for a buffer built with capacity 2, after a put,
\* a take and another thread's timed-out call; the queue never held 2 items
C17_Witness ==
    \E t, u \in Threads :
        /\ pc[t] = "idle" /\ arg[t] = 2
        /\ capacity = 2
        /\ putLog = <<1>> /\ takeLog = <<1>>
        /\ raised[u]

\* C18: the step in which size() returns is made by the holder of the lock,
\* returns the length the queue has at that step and releases the lock; only
\* the holder of the lock is inside a locked region, so no put or take is in
\* the middle of its own; and no step of a thread inside size() changes the
\* queue, the capacity, the waiters or another thread.
C18_SizeUnderLock ==
    /\ [][\A t \in Threads : (op[t] = "size" /\ op'[t] = "none") =>
              /\ lock = t /\ lock' = NoThread
              /\ arg'[t] = Len(queue)]_vars
    /\ [](\A t \in Threads : pc[t] = "locked" => lock = t)
    /\ [][\A t \in Threads :
              ((op[t] = "size" \/ op'[t] = "size") /\ pc'[t] # pc[t]) =>
                  /\ queue' = queue /\ capacity' = capacity
                  /\ not_empty' = not_empty /\ not_full' = not_full
                  /\ putLog' = putLog /\ takeLog' = takeLog
                  /\ \A u \in Threads \ {t} : pc'[u] = pc[u]]_vars

\* size() returned 1 when the queue of capacity 2 held one item (nothing was
\* ever taken, and the thread's last call did not time out); a second item
\* has been put since
C18_Witness ==
    \E t \in Threads :
        /\ pc[t] = "idle" /\ ~raised[t]
        /\ arg[t] = 1
        /\ capacity = 2
        /\ takeLog = <<>>
        /\ Len(queue) = 2

\* the step in which thread t's get_next returns
GetReturns(t) == op[t] = "get_next" /\ op'[t] = "none"

\* C19: a get_next call that returns while the index is below len(items)
\* returns the element at the index and advances the index by one; a call
\* that returns with the index at len(items) returns None and leaves the
\* index; the index moves in no other step and never passes len(items), and
\* the list is never changed.
C19_GetNextInOrder ==
    /\ [][\A t \in Threads : GetReturns(t) =>
              IF source_index < Len(source_items)
              THEN /\ arg'[t] = source_items[source_index + 1]
                   /\ source_index' = source_index + 1
              ELSE /\ arg'[t] = None
                   /\ source_index' = source_index]_vars
    /\ [][source_index' # source_index =>
              \E t \in Threads : GetReturns(t)]_vars
    /\ [](source_index \in 0..Len(source_items))
    /\ [][source_items' = source_items]_vars

\* one thread alone has made MaxGets calls on a list of MaxSource elements:
\* the elements, then None more than once
C19_Witness ==
    /\ \A t \in Threads : role[t] = "reader" <=> t = 1
    /\ \A t \in Threads : role[t] # "getter"
    /\ calls = MaxGets
    /\ Len(source_items) = MaxSource
    /\ source_index = MaxSource
    /\ pc[1] = "get_next" /\ arg[1] = None

\* two or more getters, and nothing else, have run to their end
GettersDone ==
    /\ Cardinality({t \in Threads : role[t] = "getter"}) >= 2
    /\ \A t \in Threads : role[t] \in {"getter", "off"}
    /\ \A t \in Threads : role[t] = "getter" => pc[t] = "done"

\* C20 as stated: when several getters have each received None, every
\* element of the list has been handed out and the elements received are
\* those of the list, each as often as the list holds it.
C20_ExactlyOnce ==
    GettersDone =>
        /\ source_index = Len(source_items)
        /\ \A x \in 1..MaxSource : Count(x, dest_items) = Count(x, source_items)

\* C20 for lists without None elements, and for all lists: no element is
\* received more often than the list holds it
C20_ExactlyOnceNoNone ==
    /\ (GettersDone /\ Count(None, source_items) = 0) =>
          /\ source_index = Len(source_items)
          /\ \A x \in 1..MaxSource :
                Count(x, dest_items) = Count(x, source_items)
    /\ \A x \in 1..MaxSource : Count(x, dest_items) <= Count(x, source_items)
    /\ \A t \in Threads : pc[t] \in {"src_locked", "src_inc"} => source_lock = t

\* the items whose add call has returned: handed to add and no longer in it
CompletedAdds ==
    {x \in 1..Len(source_items) :
        \A t \in Threads :
            /\ \A i \in DOMAIN todo[t] : todo[t][i] # x
            /\ ~(op[t] = "add" /\ arg[t] = x)}

\* the adder that adds item x, each adder having as many items
AdderOf(x) ==
    LET na == Cardinality({t \in Threads : role[t] = "adder"})
    IN  ((x - 1) \div (Len(source_items) \div na)) + 1

C22_SnapshotCopy ==
    /\ [][\A t \in Threads : (op[t] = "get_items" /\ op'[t] = "none") =>
              dest_items' = dest_items]_vars
    /\ [][\A t \in Threads :
              (snapshot[t].ref # "none" /\ op[t] # "get_items") =>
                  /\ snapshot'[t].ref # "none"
                  /\ SnapshotValue(t)' = SnapshotValue(t)]_vars

\* a thread holds the list <<1>> it got from get_items() and the container
\* has grown to two items since
C22_Witness ==
    \E s \in Threads :
        /\ snapshot[s].ref # "none" /\ op[s] = "none"
        /\ SnapshotValue(s) = <<1>>
        /\ dest_items = <<1, 2>>

\* C23: in every state of a pipeline run no thread holds two of the buffer
\* lock, the source lock and the destination lock.
C23_OneLockAtATime ==
    \A t \in Threads :
        /\ ~(lock = t /\ source_lock = t)
        /\ ~(lock = t /\ dest_lock = t)
        /\ ~(source_lock = t /\ dest_lock = t)

\* the Producer is inside put with the buffer lock while the Consumer is
\* inside add with the destination lock
C23_Witness ==
    \E p, c \in Threads :
        /\ role[p] = "producer" /\ op[p] = "put" /\ lock = p
        /\ role[c] = "consumer" /\ op[c] = "add" /\ dest_lock = c
        /\ source_index > 0

C25_CrashHarmless ==
    /\ Len(queue) <= capacity
    /\ (~ENABLED NextCrash /\ nProd = nCons) =>
          \A t \in Threads : pc[t] \in {"done", "off"}

\* C26 as stated: when one Producer of a run with as many Producers as
\* Consumers exits abnormally, the run still ends with every Consumer
\* terminated, none parked in take.
C26_AbandonSignalled ==
    (~ENABLED NextAbandon /\ nProd = nCons) =>
        \A t \in Consumers : pc[t] = "done"

\* C27 as stated: with no Producer (and nobody else putting) a run of
\* Consumers started on an empty buffer ends with every Consumer terminated.
C27_ZeroProducersShutdown ==
    (~ENABLED NextZero /\ \A t \in Threads : role[t] # "putter") =>
        \A t \in Threads : role[t] = "consumer" => pc[t] = "done"

\* C27 amended: with no Producer no shutdown signal is put by the Consumers'
\* side: a Consumer terminates only on a pill that another thread has put,
\* so never more Consumers have terminated than pills were put, and when
\* nothing is put the run ends with every Consumer parked in take's wait.
C27_ZeroProducersWait ==
    /\ Cardinality({t \in Threads : role[t] = "consumer" /\ pc[t] = "done"})
          <= Cardinality({i \in DOMAIN putLog : putLog[i] = poison_pill})
    /\ (~ENABLED NextZero /\ putLog = <<>>) =>
          \A t \in Threads : role[t] = "consumer" =>
              /\ pc[t] = "waiting"
              /\ \E i \in DOMAIN not_empty : not_empty[i] = t

\* two Consumers and nobody else: both are parked in take, nothing can move
C27_Witness ==
    /\ \A t \in Threads : role[t] \in {"consumer", "off"}
    /\ Cardinality({t \in Threads : role[t] = "consumer"}) = 2
    /\ \A t \in Threads : role[t] = "consumer" => pc[t] = "waiting"
    /\ queue = <<>> /\ ~ENABLED NextZero

\* C28: in sequential use the queue's length is the number of puts that
\* returned minus the number of takes that returned, size() returns that
\* number, and a take that follows a put into the empty buffer returns the
\* item put and leaves the buffer empty.
C28_SizeIsPutsMinusTakes ==
    /\ [](Len(queue) = Len(putLog) - Len(takeLog))
    /\ [][\A t \in Threads : (op[t] = "size" /\ op'[t] = "none") =>
              arg'[t] = Len(putLog) - Len(takeLog)]_vars
    /\ [][\A t \in Threads :
              (op[t] = "take" /\ op'[t] = "none" /\ ~raised'[t]
                 /\ Len(putLog) = Len(takeLog) + 1) =>
                  /\ arg'[t] = putLog[Len(putLog)]
                  /\ queue' = <<>>]_vars

\* on a buffer of capacity 1: put(1), take() gave 1, the pill was put, and
\* size() has returned 1
C28_Witness ==
    /\ capacity = 1
    /\ putLog = <<1, poison_pill>> /\ takeLog = <<1>>
    /\ queue = <<poison_pill>>
    /\ op[1] = "none" /\ arg[1] = 1 /\ ~raised[1]

\* thread u will move without anybody's help: it is about to take the lock,
\* holds it, or is parked with a timeout
WillMove(u) ==
    \/ pc[u] \in {"acquire", "reacquire", "locked", "timedout"}
    \/ pc[u] = "waiting" /\ deadline[u] # "none"

\* C29: whenever a thread is parked in take's wait and the buffer holds an
\* item, or a thread is parked in put's wait and the buffer has room, some
\* thread is about to take the lock, holds it, or is parked with a timeout.
C29_NoLostWakeup ==
    \A t \in Threads :
        /\ (pc[t] = "waiting" /\ op[t] = "take" /\ queue # <<>>) =>
              \E u \in Threads : WillMove(u)
        /\ (pc[t] = "waiting" /\ op[t] = "put" /\ Len(queue) < capacity) =>
              \E u \in Threads : WillMove(u)

\* a taker without timeout is parked while the buffer holds an item: the
\* notify of the put went to another taker, whose time is up and which is on
\* its way to the lock, and nobody else is
C29_Witness ==
    \E t, w \in Threads :
        /\ pc[t] = "waiting" /\ op[t] = "take" /\ deadline[t] = "none"
        /\ queue # <<>>
        /\ pc[w] = "reacquire" /\ op[w] = "take" /\ deadline[w] = "passed"
        /\ \A u \in Threads \ {w} : ~WillMove(u)

\* C30: at most one thread is inside the locked region of put, take or
\* size, and it is the holder of the lock; a thread parked in a wait does not
\* hold the lock; every step that changes the deque, and every step in which
\* a thread leaves the locked region after reading it, is a step of the
\* holder of the lock and moves no other thread except by waking it.
C30_MutualExclusion ==
    /\ [](\A t, u \in Threads :
            (pc[t] = "locked" /\ pc[u] = "locked") => t = u)
    /\ [](\A t \in Threads : pc[t] = "locked" => lock = t)
    /\ [](\A t \in Threads : pc[t] = "waiting" => lock # t)
    /\ [][queue' # queue =>
            \E t \in Threads :
                /\ lock = t /\ pc[t] = "locked" /\ op[t] \in {"put", "take"}
                /\ pc'[t] # "locked" /\ lock' = NoThread
                /\ \A u \in Threads \ {t} :
                      pc'[u] = pc[u] \/ (pc[u] = "waiting" /\ pc'[u] = "reacquire")]_vars
    /\ [][\A t \in Threads :
              (pc[t] = "locked" /\ pc'[t] # "locked") => lock = t]_vars

\* a thread is inside size() with the lock while a put that was parked and
\* woken stands before the lock
C30_Witness ==
    \E t, u \in Threads :
        /\ pc[t] = "locked" /\ lock = t /\ op[t] = "size"
        /\ pc[u] = "reacquire" /\ op[u] = "put"

\* C31: the step that raises BufferTimeoutError is made by the holder of the
\* lock inside the locked region, on an empty queue (take) or a full queue
\* (put); a call whose deadline has passed and that finds an item (room) has
\* the normal return as its one possible step; and no call parks itself once
\* its deadline has passed.
C31_PredicateBeforeDeadline ==
    /\ [][\A t \in Threads : (raised'[t] /\ ~raised[t]) =>
              /\ lock = t /\ pc[t] = "locked"
              /\ op[t] = "take" => Len(queue) = 0
              /\ op[t] = "put" => Len(queue) >= capacity]_vars
    /\ [](\A t \in Threads :
            (pc[t] = "locked" /\ lock = t /\ deadline[t] = "passed"
                 /\ op[t] = "put" /\ Len(queue) < capacity) =>
                ENABLED PutDone(t) /\ ~ENABLED PutTimeout(t) /\ ~ENABLED PutWait(t))
    /\ [](\A t \in Threads :
            (pc[t] = "locked" /\ lock = t /\ deadline[t] = "passed"
                 /\ op[t] = "take" /\ Len(queue) > 0) =>
                ENABLED TakeDone(t) /\ ~ENABLED TakeTimeout(t) /\ ~ENABLED TakeWait(t))
    /\ [][\A t \in Threads : (pc'[t] = "waiting" /\ pc[t] # "waiting") =>
              deadline[t] # "passed"]_vars

\* a take whose deadline has passed holds the lock on a queue with an item,
\* after the other thread's put has timed out on the full queue
C31_Witness ==
    \E t, u \in Threads :
        /\ pc[t] = "locked" /\ lock = t /\ deadline[t] = "passed"
        /\ op[t] = "take" /\ Len(queue) > 0
        /\ raised[u] /\ op[u] = "none" /\ arg[u] # None

\* C32: between the entry of a timed put or take and its end the time left
\* only shrinks, whatever wake-ups and waits happen in between (two ticks,
\* one tick, passed; never back), a call without timeout never gets a
\* deadline, and a call that holds the lock with its deadline passed on an
\* empty (full) queue can only raise.
C32_DeadlineFixed ==
    /\ [][\A t \in Threads : (op[t] # "none" /\ op'[t] = op[t]) =>
              \/ deadline'[t] = deadline[t]
              \/ deadline[t] = "pending2" /\ deadline'[t] = "pending"
              \/ deadline[t] = "pending" /\ deadline'[t] = "passed"]_vars
    /\ [][\A t \in Threads :
              (pc[t] = "locked" /\ pc'[t] = "waiting") =>
                  deadline'[t] = deadline[t] /\ deadline[t] # "passed"]_vars
    /\ [](\A t \in Threads :
            (pc[t] = "locked" /\ lock = t /\ deadline[t] = "passed"
                 /\ op[t] = "take" /\ queue = <<>>) =>
                ENABLED TakeTimeout(t) /\ ~ENABLED TakeWait(t))
    /\ [](\A t \in Threads :
            (pc[t] = "locked" /\ lock = t /\ deadline[t] = "passed"
                 /\ op[t] = "put" /\ Len(queue) = capacity) =>
                ENABLED PutTimeout(t) /\ ~ENABLED PutWait(t))

\* a timed take was parked and woken by a put, one tick of its time is left,
\* and the item has gone to the other thread: the queue is empty again
C32_Witness ==
    \E t \in Threads :
        /\ op[t] = "take" /\ pc[t] = "reacquire" /\ deadline[t] = "pending"
        /\ queue = <<>> /\ Len(takeLog) = Len(putLog) /\ Len(putLog) > 0

\* the number of places element x of the run is in: still in the source,
\* with a Producer between get_next and put, in the buffer, with a Consumer
\* between take and add, in the destination
PlacesOf(x) ==
    Cardinality({i \in DOMAIN source_items :
                    i > source_index /\ source_items[i] = x})
    + Cardinality({p \in Threads : /\ role[p] = "producer" /\ op[p] = "put"
                                   /\ cont[p] = "get_next" /\ arg[p] = x})
    + Cardinality({i \in DOMAIN queue : queue[i] = x})
    + Cardinality({c \in Threads : /\ role[c] = "consumer" /\ pc[c] = "add"
                                   /\ arg[c] = x})
    + Cardinality({i \in DOMAIN dest_items : dest_items[i] = x})

\* C33 as stated: in every state every element of the source list, None
\* included, is in as many places as it occurs in the list.
C33_Conservation ==
    \A x \in 0..MaxItems :
        PlacesOf(x) = Cardinality({i \in DOMAIN source_items : source_items[i] = x})

\* C33 for the elements other than None
C33_ConservationNoNone ==
    \A x \in 1..MaxItems :
        PlacesOf(x) = Cardinality({i \in DOMAIN source_items : source_items[i] = x})

\* C34: in every state the pills put so far are as many as the Producers
\* that have finished without an exception; the put of a pill is the last
\* step of its Producer, the put of an ordinary item is followed by the next
\* get_next, and a finished Producer does nothing more; so once all
\* Producers have finished without an exception the last element appended to
\* the buffer is a pill.
C34_OnePillPerProducer ==
    /\ [](Cardinality({i \in DOMAIN putLog : putLog[i] = poison_pill}) =
            Cardinality({p \in Threads : /\ role[p] = "producer"
                                         /\ pc[p] = "done" /\ ~raised[p]}))
    /\ [][\A p \in Threads :
              (role[p] = "producer" /\ Len(putLog') > Len(putLog)
                 /\ op[p] = "put" /\ op'[p] = "none" /\ ~raised'[p]) =>
                  /\ putLog' = Append(putLog, arg[p])
                  /\ pc'[p] = IF arg[p] = poison_pill THEN "done" ELSE "get_next"]_vars
    /\ [][\A p \in Threads : pc[p] = "done" =>
              pc'[p] = "done" /\ op'[p] = op[p] /\ arg'[p] = arg[p]]_vars
    /\ []((/\ putLog # <<>>
           /\ \A p \in Threads :
                 role[p] = "producer" => pc[p] = "done" /\ ~raised[p]) =>
              putLog[Len(putLog)] = poison_pill)

\* two Producers have finished: the pill of the one that found the source
\* exhausted first went into the buffer before the other's item
C34_Witness ==
    /\ putLog = <<poison_pill, 1, poison_pill>>
    /\ \A p \in Threads : role[p] = "producer" => pc[p] = "done" /\ ~raised[p]

\* C35 as stated: with as many Producers as Consumers, once the last
\* Consumer has terminated the buffer is empty and the destination holds the
\* elements of the source list, None included, as a multiset.
C35_EqualCountsDeliver ==
    (nProd = nCons /\ DoneConsumers = Consumers) =>
        /\ queue = <<>>
        /\ \A x \in 0..MaxItems : Count(x, dest_items) = Count(x, source_items)

\* C35 for source lists without None elements
C35_EqualCountsDeliverNoNone ==
    (/\ nProd = nCons
     /\ DoneConsumers = Consumers
     /\ Count(None, source_items) = 0) =>
        /\ queue = <<>>
        /\ Len(dest_items) = Len(source_items)
        /\ \A x \in 1..MaxItems : Count(x, dest_items) = Count(x, source_items)

\* a Producer that has stopped fetching: it holds its pill or has finished
StoppedFetching(p) ==
    role[p] = "producer" /\ (pc[p] = "done" \/ (op[p] = "put" /\ cont[p] = "done"))

\* C36 as stated: a Producer has stopped fetching only if every element of
\* the source list, None elements included, has been handed out, and once
\* the pill is in the buffer every element of the list was put before it.
C36_StopsOnlyWhenExhausted ==
    /\ \A p \in Threads : StoppedFetching(p) => source_index = Len(source_items)
    /\ (nProd = 1 /\ PillsPut > 0) =>
          /\ Len(putLog) = Len(source_items) + 1
          /\ \A i \in DOMAIN source_items : putLog[i] = source_items[i]

\* C36 for source lists without None elements
C36_StopsOnlyWhenExhaustedNoNone ==
    Count(None, source_items) = 0 =>
        /\ \A p \in Threads : StoppedFetching(p) => source_index = Len(source_items)
        /\ (nProd = 1 /\ PillsPut > 0) =>
              /\ Len(putLog) = Len(source_items) + 1
              /\ \A i \in DOMAIN source_items : putLog[i] = source_items[i]

\* the Producers whose put of the pill has returned
PillsPutAsPill == Cardinality({p \in Threads : role[p] = "producer" /\ pc[p] = "done"})

\* C37 as stated: for every poison_pill value, the Consumers that have
\* terminated are at most as many as the pills the Producers have put as
\* pills, and every element taken was either such a pill or is added (or
\* about to be added) to the destination.
C37_NoPayloadCollision ==
    /\ Cardinality(DoneConsumers) <= PillsPutAsPill
    /\ Len(takeLog) = Len(dest_items) + Cardinality(DoneConsumers)
                        + Cardinality({c \in Consumers : pc[c] = "add"})

\* C37 for a poison_pill value that is no element of the source list
C37_NoPayloadCollisionDistinct ==
    Count(poison_pill, source_items) = 0 =>
        /\ Cardinality(DoneConsumers) <= PillsPutAsPill
        /\ Len(takeLog) = Len(dest_items) + Cardinality(DoneConsumers)
                            + Cardinality({c \in Consumers : pc[c] = "add"})
====
